---- MODULE Spec2Model ----
(***************************************************************************)
(* Model of the otagent routing core (src/src/Agent.cpp): the constructor, *)
(* the ZAP handler, the frontend / internal / backend / push handlers, the *)
(* two association maps and the persisted session counters.                *)
(*                                                                         *)
(* Frames are byte strings.  A frame that carries a protobuf is modelled   *)
(* as the tuple of its fields (ProtoAsData / DataToProto below); every     *)
(* other frame is a string.  An OT_ASSERT failure terminates the process:  *)
(* it sets aborted and no handler runs afterwards.                         *)
(***************************************************************************)
EXTENDS Integers, Sequences, FiniteSets, TLC

\* ------------------------------------------------------------------ bounds
\* number of reply workers (std::max(hardware_concurrency, 1))
NumWorkers == 2
\* number of requests the clients send during a run
MaxRequests == 2
\* number of messages the engine publishes on rpc/push during a run
MaxPushes == 2
\* constructor arguments clients / servers (and the persisted counters)
InitClients == 1
InitServers == 1

\* ------------------------------------------------------- program constants
RPCPUSH_VERSION == 2
TASKCOMPLETE_VERSION == 1

Workers == 1..NumWorkers
Conns == {"c1", "c2"}
NoLock == 0

\* ------------------------------------------------------------------- Z85
Z85Chars ==
  << "0", "1", "2", "3", "4", "5", "6", "7", "8", "9", "a", "b", "c", "d",
     "e", "f", "g", "h", "i", "j", "k", "l", "m", "n", "o", "p", "q", "r",
     "s", "t", "u", "v", "w", "x", "y", "z", "A", "B", "C", "D", "E", "F",
     "G", "H", "I", "J", "K", "L", "M", "N", "O", "P", "Q", "R", "S", "T",
     "U", "V", "W", "X", "Y", "Z", ".", "-", ":", "+", "=", "^", "!", "/",
     "*", "?", "&", "<", ">", "(", ")", "[", "]", "{", "}", "@", "%", "$",
     "#" >>

\* one 4-byte group as a 32-bit big-endian number
Z85Value(b) == ((b[1] * 256 + b[2]) * 256 + b[3]) * 256 + b[4]

\* the five base-85 digits of one group, most significant first
Z85Group(b) ==
  LET v == Z85Value(b) IN
  << Z85Chars[((v \div 52200625) % 85) + 1],
     Z85Chars[((v \div 614125) % 85) + 1],
     Z85Chars[((v \div 7225) % 85) + 1],
     Z85Chars[((v \div 85) % 85) + 1],
     Z85Chars[(v % 85) + 1] >>

RECURSIVE Z85Encode(_)
\* Crypto().Encode().Z85Encode: groups of 4 bytes become 5 characters; an
\* input whose length is not a multiple of 4 has no encoding (empty).
Z85Encode(data) ==
  IF Len(data) % 4 # 0 THEN <<>>
  ELSE IF Len(data) = 0 THEN <<>>
  ELSE Z85Group(SubSeq(data, 1, 4)) \o Z85Encode(SubSeq(data, 5, Len(data)))

\* raw Curve public keys clients present (4-byte stand-ins for 32 bytes)
TrustedKey == <<1, 2, 3, 4>>
OtherKey == <<1, 2, 3, 5>>
ShortKey == <<1, 2, 3>>
\* the configured client public key, as stored: the Z85 text of TrustedKey
client_pubkey_ == <<"0", "r", "J", "u", "a">>

Mechanisms == {"NULL", "PLAIN", "CURVE"}
CredentialLists == {<<>>, <<TrustedKey>>, <<OtherKey>>, <<ShortKey>>}

\* ------------------------------------------------------------ ZAP handler
ZapReply(code, status) == [code |-> code, status |-> status]
\* Credentials().at(0) on an empty list: the handler does not return a reply
ZapNoReply == ZapReply("none", "out_of_range")
\* no authentication has been attempted on the connection yet
ZapNone == ZapReply("", "")

zap_handlerM(request) ==
  IF Len(request.credentials) = 0 THEN ZapNoReply
  ELSE IF "CURVE" # request.mechanism
       THEN ZapReply("AuthFailure", "Unsupported mechanism")
       ELSE ZapReply("Success", "OK")

zap_handler(request) ==
  IF Len(request.credentials) = 0 THEN ZapNoReply
  ELSE LET pubkey == request.credentials[1] IN
       IF "CURVE" # request.mechanism
       THEN ZapReply("AuthFailure", "Unsupported mechanism")
       ELSE IF client_pubkey_ # Z85Encode(pubkey)
            THEN ZapReply("AuthFailure", "Incorrect pubkey")
            ELSE ZapReply("Success", "OK")

\* ------------------------------------------------------------- protobufs
NymIds == {"n1", "n2"}
\* task ids the engine mints, in order
TaskIdTable == <<"t1", "t2", "t3", "t4", "t5", "t6">>

RegisterKinds ==
  {"REGISTERNYM", "ISSUEUNITDEFINITION", "CREATEACCOUNT",
   "CREATECOMPATIBLEACCOUNT"}

\* an RPCCommand as the client builds it (cookie is set when it is sent)
Cmd(type, session, owner, assoc, src, dsts) ==
  [cookie |-> 0, type |-> type, session |-> session, owner |-> owner,
   associatenym |-> assoc,
   sendpayment |-> [sourceaccount |-> src],
   acceptpendingpayment |->
     [i \in 1..Len(dsts) |-> [destinationaccount |-> dsts[i]]]]

\* proto::ProtoAsData<RPCCommand>: the fields in tag order
CommandAsData(c) ==
  << "RPCCommand", c.cookie, c.type, c.session, c.owner, c.associatenym,
     c.sendpayment.sourceaccount,
     [i \in 1..Len(c.acceptpendingpayment) |->
        c.acceptpendingpayment[i].destinationaccount] >>

\* proto::DataToProto<RPCCommand>
DataToCommand(d) ==
  [cookie |-> d[2], type |-> d[3], session |-> d[4], owner |-> d[5],
   associatenym |-> d[6],
   sendpayment |-> [sourceaccount |-> d[7]],
   acceptpendingpayment |->
     [i \in 1..Len(d[8]) |-> [destinationaccount |-> d[8][i]]]]

\* proto::ProtoAsData<RPCResponse>
ResponseAsData(r) ==
  << "RPCResponse", r.cookie, r.type, r.status, r.task, r.identifier >>

DataToResponse(d) ==
  [cookie |-> d[2], type |-> d[3], status |-> d[4], task |-> d[5],
   identifier |-> d[6]]

\* proto::ProtoAsData<RPCPush>
PushAsData(p) ==
  << "RPCPush", p.version, p.type, p.id,
     <<p.taskcomplete.version, p.taskcomplete.id, p.taskcomplete.result>> >>

\* proto::DataToProto<RPCPush>
DataToPush(d) ==
  [version |-> d[2], type |-> d[3], id |-> d[4],
   taskcomplete |-> [version |-> d[5][1], id |-> d[5][2], result |-> d[5][3]]]

\* ------------------------------------------------------------- the engine
\* Client(index).Storage().AccountOwner(account): the accounts live in the
\* storage of client 2 (session 4); any other lookup finds no owner.
AccountOwner(index, account) ==
  IF index = 2 /\ account = "a1" THEN "n1"
  ELSE IF index = 2 /\ account = "a2" THEN "n2"
  ELSE ""

\* the payload of a nym-addressed event the engine publishes
EventPayload(nym) ==
  PushAsData([version |-> RPCPUSH_VERSION, type |-> "ACCOUNT", id |-> nym,
              taskcomplete |-> [version |-> 0, id |-> "", result |-> FALSE]])

\* a taskComplete push as the engine publishes it
TaskComplete(taskID, result) ==
  << PushAsData(
       [version |-> RPCPUSH_VERSION, type |-> "TASK", id |-> "",
        taskcomplete |-> [version |-> TASKCOMPLETE_VERSION,
                          id |-> taskID, result |-> result]]) >>

\* ------------------------------------------------------------- workloads
\* What the clients and the engine do in a run.  A run follows one workload,
\* chosen in Init; each keeps the inputs of one part of the agent small.
\* cmds lists, in turn, the commands a request may carry: request k draws
\* from cmds[((k - 1) % Len(cmds)) + 1].
GoodAuth == [mechanism |-> "CURVE", credentials |-> <<TrustedKey>>]
AllAuth == [mechanism : Mechanisms, credentials : CredentialLists]
Plain == <<>>

Workloads ==
  << \* 1: authentication, every mechanism and credential list
     [conns |-> {"c1"}, auth |-> AllAuth,
      cmds |-> << {Cmd("LISTNYMS", 0, "", <<>>, "", <<>>)} >>,
      empty |-> TRUE, extra |-> {Plain},
      status |-> {<<"SUCCESS">>}, identifier |-> {<<>>},
      reuse |-> FALSE,
      events |-> {}],
     \* 2: session bookkeeping
     [conns |-> {"c1"}, auth |-> {GoodAuth},
      cmds |-> << {Cmd("ADDCLIENTSESSION", 0, "", <<>>, "", <<>>),
                Cmd("ADDSERVERSESSION", 0, "", <<>>, "", <<>>)} >>,
      empty |-> FALSE, extra |-> {Plain},
      status |-> {<<"SUCCESS">>, <<"ERROR">>, <<>>}, identifier |-> {<<>>},
      reuse |-> FALSE,
      events |-> {}],
     \* 3: nym associations of two connections
     [conns |-> {"c1", "c2"}, auth |-> {GoodAuth},
      cmds |-> << {Cmd("CREATENYM", 0, "", <<>>, "", <<>>),
                Cmd("LISTNYMS", 0, "", <<"", "n1">>, "", <<>>)} >>,
      empty |-> FALSE, extra |-> {Plain},
      status |-> {<<"SUCCESS">>}, identifier |-> {<<"n1">>},
      reuse |-> FALSE,
      events |-> {}],
     \* 4, 5 (and 11): queued tasks of every command kind the classifier
     \* names
     [conns |-> {"c1"}, auth |-> {GoodAuth},
      cmds |-> << {Cmd("REGISTERNYM", 4, "n1", <<>>, "a2", <<"a1">>)},
                 {Cmd("SENDPAYMENT", 4, "n2", <<>>, "a2", <<"a1">>)} >>,
      empty |-> FALSE, extra |-> {Plain},
      status |-> {<<"QUEUED">>}, identifier |-> {<<>>},
      reuse |-> FALSE,
      events |-> {}],
     [conns |-> {"c1"}, auth |-> {GoodAuth},
      cmds |-> << {Cmd("ISSUEUNITDEFINITION", 4, "n2", <<>>, "a1", <<"a2">>)},
                 {Cmd("CREATEACCOUNT", 4, "n1", <<>>, "a1", <<"a1">>)} >>,
      empty |-> FALSE, extra |-> {Plain},
      status |-> {<<"QUEUED">>}, identifier |-> {<<>>},
      reuse |-> FALSE,
      events |-> {}],
     \* 6 (and 10): payments on even and odd sessions
     [conns |-> {"c1"}, auth |-> {GoodAuth},
      cmds |-> << {Cmd("SENDPAYMENT", s, "n2", <<>>, "a1", <<"a2">>) :
                  s \in {3, 4}} >>,
      empty |-> FALSE, extra |-> {Plain},
      status |-> {<<"QUEUED">>, <<"ERROR">>}, identifier |-> {<<>>},
      reuse |-> FALSE,
      events |-> {}],
     \* 7: a command kind the classifier has no case for
     [conns |-> {"c1"}, auth |-> {GoodAuth},
      cmds |-> << {Cmd("MOVEFUNDS", 4, "n1", <<>>, "a1", <<>>)} >>,
      empty |-> FALSE, extra |-> {Plain},
      status |-> {<<"QUEUED">>, <<"SUCCESS">>}, identifier |-> {<<>>},
      reuse |-> FALSE,
      events |-> {}],
     \* 8: requests with more than one body frame, nym-addressed events
     [conns |-> {"c1"}, auth |-> {GoodAuth},
      cmds |-> << {Cmd("REGISTERNYM", 4, "n2", <<"n1">>, "", <<>>)} >>,
      empty |-> FALSE, extra |-> {Plain, <<"c2">>},
      status |-> {<<"QUEUED">>}, identifier |-> {<<>>},
      reuse |-> FALSE,
      events |-> {<<"n1", EventPayload("n1"), "inst-0">>}],
     \* 9: queued tasks of two connections
     [conns |-> {"c1", "c2"}, auth |-> {GoodAuth},
      cmds |-> << {Cmd("REGISTERNYM", 4, "n1", <<>>, "", <<>>)} >>,
      empty |-> FALSE, extra |-> {Plain},
      status |-> {<<"QUEUED">>}, identifier |-> {<<>>},
      reuse |-> FALSE,
      events |-> {}],
     \* 10: as 6, for AcceptPendingPayments
     [conns |-> {"c1"}, auth |-> {GoodAuth},
      cmds |-> << {Cmd("ACCEPTPENDINGPAYMENTS", s, "n1", <<>>, "a1",
                    <<"a2", "a1">>) : s \in {3, 4}} >>,
      empty |-> FALSE, extra |-> {Plain},
      status |-> {<<"QUEUED">>, <<"ERROR">>}, identifier |-> {<<>>},
      reuse |-> FALSE,
      events |-> {}],
     \* 11: as 4 and 5
     [conns |-> {"c1"}, auth |-> {GoodAuth},
      cmds |-> << {Cmd("ACCEPTPENDINGPAYMENTS", 4, "n1", <<>>, "a1",
                     <<"a2", "a1">>)},
                 {Cmd("CREATECOMPATIBLEACCOUNT", 4, "n1", <<>>, "a2",
                     <<"a2">>)} >>,
      empty |-> FALSE, extra |-> {Plain},
      status |-> {<<"QUEUED">>}, identifier |-> {<<>>},
      reuse |-> FALSE,
      events |-> {}],
     \* 12: nyms of two connections and the events addressed to them
     [conns |-> {"c1", "c2"}, auth |-> {GoodAuth},
      cmds |-> << {Cmd("CREATENYM", 0, "", <<>>, "", <<>>)},
                  {Cmd("LISTNYMS", 0, "", <<"n2">>, "", <<>>)} >>,
      empty |-> FALSE, extra |-> {Plain},
      status |-> {<<"SUCCESS">>}, identifier |-> {<<"n1">>},
      reuse |-> FALSE,
      events |-> {<<n, EventPayload(n), "inst-0">> : n \in {"n1", "n2"}}],
     \* 13: pushes the bridge has no use for, next to one it delivers
     [conns |-> {"c1"}, auth |-> {GoodAuth},
      cmds |-> << {Cmd("LISTNYMS", 0, "", <<"n1">>, "", <<>>)} >>,
      empty |-> FALSE, extra |-> {Plain},
      status |-> {<<"SUCCESS">>}, identifier |-> {<<>>},
      reuse |-> FALSE,
      events |-> {<<"n1", EventPayload("n1"), "inst-0">>,
                  <<"n2", EventPayload("n2"), "inst-0">>,
                  <<"n1", EventPayload("n1")>>,
                  TaskComplete("T-unknown", TRUE)}],
     \* 14: an engine that names a task id twice
     [conns |-> {"c1", "c2"}, auth |-> {GoodAuth},
      cmds |-> << {Cmd("REGISTERNYM", 4, "n1", <<>>, "", <<>>)},
                  {Cmd("REGISTERNYM", 4, "n2", <<>>, "", <<>>)} >>,
      empty |-> FALSE, extra |-> {Plain},
      status |-> {<<"QUEUED">>}, identifier |-> {<<>>},
      reuse |-> TRUE,
      events |-> {}],
     \* 15: responses with more than one status
     [conns |-> {"c1"}, auth |-> {GoodAuth},
      cmds |-> << {Cmd("REGISTERNYM", 4, "n1", <<>>, "", <<>>)} >>,
      empty |-> FALSE, extra |-> {Plain},
      status |-> {<<"QUEUED">>, <<"SUCCESS", "QUEUED">>, <<"ERROR">>,
                  <<>>},
      identifier |-> {<<>>},
      reuse |-> FALSE,
      events |-> {}] >>

\* ---------------------------------------------------------------- state
VARIABLES
  workload,             \* index of the run's workload
  ctor_pc,              \* position of Agent::Agent in CtorSteps
  ctor_i,               \* loop variable of the constructor's refresh loop
  zap_registered,       \* ot_.ZAP() has the handler for ZAP_DOMAIN
  frontend_domain,      \* frontend_->SetDomain done
  frontend_bound,       \* frontend_->Start done: clients can connect
  push_started,         \* push_subscriber_->Start done
  conn,                 \* per client connection: its ZAP request and reply
  client_sent,          \* the requests clients have sent, in order
  rr,                   \* the worker the internal dealer sends to next
  inbox,                \* per worker: requests queued on its reply socket
  worker,               \* per worker: position and locals of backend_handler
  internal_in,          \* replies queued on the internal dealer
  frontend_sent,        \* messages sent on the frontend, with the sender
  task_lock_,           \* holder of task_lock_ (NoLock when free)
  config_lock_,         \* holder of config_lock_
  task_connection_map_,
  nym_connection_map_,
  config_,              \* the in-memory settings tree (clients, servers)
  settings_file,        \* the settings file on disk
  clients_,
  servers_,
  engine,               \* engine: started sessions, minted tasks
  pushed,               \* messages the engine has published on rpc/push
  scheduled,            \* schedule_refresh calls, in order
  client_lookups,       \* ot_.Client(index) lookups of the classifier
  aborted               \* an OT_ASSERT failed

vars ==
  << workload, ctor_pc, ctor_i, zap_registered, frontend_domain,
     frontend_bound, push_started, conn, client_sent, rr, inbox, worker,
     internal_in, frontend_sent, task_lock_, config_lock_,
     task_connection_map_, nym_connection_map_, config_, settings_file,
     clients_, servers_, engine, pushed, scheduled, client_lookups, aborted >>

ctorVars == << ctor_pc, ctor_i, zap_registered, frontend_domain,
               frontend_bound, push_started >>
clientVars == << conn, client_sent >>
queueVars == << rr, inbox, internal_in >>
mapVars == << task_lock_, task_connection_map_, nym_connection_map_ >>
configVars == << config_lock_, config_, settings_file, clients_, servers_ >>

W == Workloads[workload]

NoMessage == [header |-> <<>>, body |-> <<>>]
NoResponse ==
  [cookie |-> 0, type |-> "", status |-> <<>>, task |-> <<>>,
   identifier |-> <<>>]
IdleWorker ==
  [pc |-> "idle", message |-> NoMessage, response |-> NoResponse,
   taskNymID |-> "", nyms |-> <<>>, value |-> 0]

\* the engine has published no event yet
NoEvent == [body |-> <<>>, received |-> FALSE, to |-> "", racing |-> FALSE]

\* the empty map, keyed by strings
EmptyMap == [k \in {} |-> ""]

Init ==
  /\ workload \in 1..Len(Workloads)
  /\ ctor_pc = 1
  /\ ctor_i = 1
  /\ zap_registered = FALSE
  /\ frontend_domain = FALSE
  /\ frontend_bound = FALSE
  /\ push_started = FALSE
  /\ conn = [c \in Conns |->
               [mechanism |-> "", credentials |-> <<>>, reply |-> ZapNone]]
  /\ client_sent = <<>>
  /\ rr = 1
  /\ inbox = [w \in Workers |-> <<>>]
  /\ worker = [w \in Workers |-> IdleWorker]
  /\ internal_in = <<>>
  /\ frontend_sent = <<>>
  /\ task_lock_ = NoLock
  /\ config_lock_ = NoLock
  /\ task_connection_map_ = EmptyMap
  /\ nym_connection_map_ = EmptyMap
  /\ config_ = [clients |-> InitClients, servers |-> InitServers]
  /\ settings_file = [clients |-> InitClients, servers |-> InitServers]
  /\ clients_ = InitClients
  /\ servers_ = InitServers
  /\ engine = [clients |-> 0, servers |-> 0, tasks |-> <<>>,
               events |-> 0, racing |-> 0, dropped |-> 0,
               last |-> NoEvent]
  /\ pushed = 0
  /\ scheduled = <<>>
  /\ client_lookups = {}
  /\ aborted = FALSE

\* ---------------------------------------------------------- constructor
\* the statements of the constructor body, in program order
CtorSteps ==
  << "StartSessions", "RegisterDomain", "SetDomain", "SetPrivateKey",
     "Start", "schedule_refresh" >>

CtorDone == ctor_pc > Len(CtorSteps)

\* schedule_refresh(instance): one refresh now and a recurring one
schedule_refresh(instance) == scheduled' = Append(scheduled, instance)

Agent ==
  /\ ~aborted
  /\ ~CtorDone
  /\ LET step == CtorSteps[ctor_pc] IN
     /\ zap_registered' = (zap_registered \/ step = "RegisterDomain")
     /\ frontend_domain' = (frontend_domain \/ step = "SetDomain")
     /\ frontend_bound' = (frontend_bound \/ step = "Start")
     \* the refresh loop ends and push_subscriber_ is started
     /\ push_started' =
          (push_started \/ (step = "schedule_refresh" /\ ctor_i > clients_))
     /\ engine' = IF step = "StartSessions"
                  THEN [engine EXCEPT !.clients = clients_,
                                      !.servers = servers_]
                  ELSE engine
     /\ settings_file' = IF step = "StartSessions" THEN config_
                         ELSE settings_file
     /\ IF step = "schedule_refresh" /\ ctor_i <= clients_
        THEN \* for (int i = 1; i <= clients_.load(); ++i)
             /\ schedule_refresh(ctor_i - 1)
             /\ ctor_i' = ctor_i + 1
             /\ ctor_pc' = ctor_pc
        ELSE /\ ctor_pc' = ctor_pc + 1
             /\ UNCHANGED << ctor_i, scheduled >>
  /\ UNCHANGED << workload, clientVars, queueVars, worker, frontend_sent,
                  mapVars, config_lock_, config_, clients_, servers_,
                  pushed, client_lookups, aborted >>

\* ------------------------------------------------------ client connection
\* A client connects to the bound frontend.  The transport asks the handler
\* registered for the frontend's ZAP domain; with no handler in place the
\* connection is admitted unchecked.
Connect(c, a) ==
  /\ ~aborted
  /\ frontend_bound
  /\ c \in W.conns
  /\ conn[c].reply = ZapNone
  /\ conn' = [conn EXCEPT ![c] =
       [mechanism |-> a.mechanism, credentials |-> a.credentials,
        reply |-> IF zap_registered /\ frontend_domain
                  THEN zap_handler(a)
                  ELSE ZapReply("unchecked", "")]]
  /\ UNCHANGED << workload, ctorVars, client_sent, queueVars, worker,
                  frontend_sent, mapVars, configVars, engine, pushed,
                  scheduled, client_lookups, aborted >>

Admitted(c) == conn[c].reply.code \in {"Success", "unchecked"}

\* ------------------------------------------------------- frontend handler
\* lines 358-365: the last header frame is appended to the body
AppendIdentity(message) ==
  LET size == Len(message.header)
      identity == message.header[size]
  IN [message EXCEPT !.body = Append(@, identity)]

\* A message from connection c arrives on the router socket; the router
\* has put the connection's identity in the header.
frontend_handler(c, body) ==
  /\ ~aborted
  /\ Admitted(c)
  /\ Len(client_sent) < MaxRequests
  /\ LET message == [header |-> <<c>>, body |-> body] IN
     /\ client_sent' = Append(client_sent, message)
     /\ IF 0 = Len(message.body)
        THEN UNCHANGED << rr, inbox >>
        ELSE \* internal_->Send(message): the dealer round-robins
             /\ inbox' = [inbox EXCEPT ![rr] =
                            Append(@, AppendIdentity(message))]
             /\ rr' = (rr % NumWorkers) + 1
  /\ UNCHANGED << workload, ctorVars, conn, internal_in, worker,
                  frontend_sent, mapVars, configVars, engine, pushed,
                  scheduled, client_lookups, aborted >>

\* the bodies the clients of the workload send as their next request
ClientBodies ==
  LET cookie == Len(client_sent) + 1 IN
  { <<CommandAsData([cmd EXCEPT !.cookie = cookie])>> \o x :
       cmd \in W.cmds[((cookie - 1) % Len(W.cmds)) + 1], x \in W.extra }
  \cup (IF W.empty THEN {<<>>} ELSE {})

\* -------------------------------------------------------- backend handler
Command(w) == DataToCommand(worker[w].message.body[1])
\* line 210: the connection id is the body frame at index 1
ConnectionID(w) == worker[w].message.body[2]

\* std::map::emplace: inserts only when the key is absent
EmplaceM(map, key, value) ==
  [k \in DOMAIN map \cup {key} |-> IF k = key THEN value ELSE map[k]]

Emplace(map, key, value) ==
  IF key \in DOMAIN map THEN map
  ELSE [k \in DOMAIN map \cup {key} |-> IF k = key THEN value ELSE map[k]]

Erase(map, key) == [k \in DOMAIN map \ {key} |-> map[k]]

\* a worker is inside nym_connection_map_.emplace (under task_lock_) and
\* the emplace writes the map: its key is absent
Emplacing(w) ==
  /\ worker[w].pc = "emplace"
  /\ Head(worker[w].nyms) \notin DOMAIN nym_connection_map_

\* lines 306-309: the response is queued and names a task
QueuedWithTask(response) ==
  /\ 0 < Len(response.status)
  /\ "QUEUED" = response.status[1]
  /\ 0 < Len(response.task)

\* lines 219-220: the first status is SUCCESS
Succeeded(response) ==
  /\ 0 < Len(response.status)
  /\ "SUCCESS" = response.status[1]

\* where backend_handler continues after the switch on response.type()
AfterSwitch(response) ==
  IF QueuedWithTask(response) THEN "associate_task" ELSE "reply"

\* where a loop over associate_nym continues: with the next nym, or behind
\* the loop (the engine call, or the code behind the switch)
AfterNym(rest, response) ==
  IF rest # <<>> THEN "associate_nym"
  ELSE IF response = NoResponse THEN "RPC"
  ELSE AfterSwitch(response)

\* OT_ASSERT failed in worker w
Abort(w) ==
  /\ aborted' = TRUE
  /\ worker' = [worker EXCEPT ![w].pc = "OT_ASSERT"]

\* lines 202-213: take the request, start the loop over associatenym
Receive(w) ==
  /\ ~aborted
  /\ worker[w].pc = "idle"
  /\ inbox[w] # <<>>
  /\ LET message == Head(inbox[w]) IN
     /\ inbox' = [inbox EXCEPT ![w] = Tail(@)]
     /\ IF 1 < Len(message.body)
        THEN LET command == DataToCommand(message.body[1]) IN
             /\ worker' = [worker EXCEPT ![w] =
                  [IdleWorker EXCEPT
                     !.message = message,
                     !.nyms = command.associatenym,
                     !.pc = AfterNym(command.associatenym, NoResponse)]]
             /\ UNCHANGED aborted
        ELSE /\ aborted' = TRUE
             /\ worker' = [worker EXCEPT ![w].pc = "OT_ASSERT",
                                         ![w].message = message]
  /\ UNCHANGED << workload, ctorVars, clientVars, rr, internal_in,
                  frontend_sent, mapVars, configVars, engine, pushed,
                  scheduled, client_lookups >>

\* the outcomes of a lookup of key in nym_connection_map_ by thread t that
\* takes no lock the writers hold: with no emplace in progress, what the
\* map holds; racing with another thread's emplace, a hit or a miss
NymFind(t, key) ==
  IF \E o \in Workers \ {t} : Emplacing(o)
  THEN BOOLEAN
  ELSE {key \in DOMAIN nym_connection_map_}

\* associate_nym, lines 154-158: the unlocked find
associate_nym(w) ==
  /\ ~aborted
  /\ worker[w].pc = "associate_nym"
  /\ LET nymID == Head(worker[w].nyms)
         rest == Tail(worker[w].nyms)
         next == AfterNym(rest, worker[w].response)
     IN IF nymID = ""
        THEN worker' = [worker EXCEPT ![w].nyms = rest, ![w].pc = next]
        ELSE \E found \in NymFind(w, nymID) :
               IF found
               THEN worker' = [worker EXCEPT ![w].nyms = rest,
                                             ![w].pc = next]
               ELSE worker' = [worker EXCEPT ![w].pc = "lock"]
  /\ UNCHANGED << workload, ctorVars, clientVars, queueVars, frontend_sent,
                  mapVars, configVars, engine, pushed, scheduled,
                  client_lookups, aborted >>

\* associate_nym, line 159: Lock lock(task_lock_)
associate_nym_lock(w) ==
  /\ ~aborted
  /\ worker[w].pc = "lock"
  /\ task_lock_ = NoLock
  /\ task_lock_' = w
  /\ worker' = [worker EXCEPT ![w].pc = "emplace"]
  /\ UNCHANGED << workload, ctorVars, clientVars, queueVars, frontend_sent,
                  task_connection_map_, nym_connection_map_, configVars,
                  engine, pushed, scheduled, client_lookups, aborted >>

\* associate_nym, lines 160-161: emplace and unlock
associate_nym_emplace(w) ==
  /\ ~aborted
  /\ worker[w].pc = "emplace"
  /\ LET nymID == Head(worker[w].nyms)
         rest == Tail(worker[w].nyms)
     IN /\ nym_connection_map_' =
             Emplace(nym_connection_map_, nymID, ConnectionID(w))
        /\ worker' = [worker EXCEPT
             ![w].nyms = rest,
             ![w].pc = AfterNym(rest, worker[w].response)]
  /\ task_lock_' = NoLock
  /\ UNCHANGED << workload, ctorVars, clientVars, queueVars, frontend_sent,
                  task_connection_map_, configVars, engine, pushed,
                  scheduled, client_lookups, aborted >>

\* the number of the task the engine names in its next QUEUED response: a
\* new one, or (an engine that reuses ids) also one it named before
TaskNumbers ==
  {Len(engine.tasks) + 1}
  \cup (IF W.reuse THEN 1..Len(engine.tasks) ELSE {})

\* the responses the engine gives to a command: the workload's status
\* lists; a response with a QUEUED status names a freshly minted task, a
\* CreateNym response carries identifiers
EngineResponses(command) ==
  { [cookie |-> command.cookie, type |-> command.type, status |-> st,
     task |-> IF \E i \in 1..Len(st) : st[i] = "QUEUED"
              THEN <<TaskIdTable[t]>>
              ELSE <<>>,
     identifier |-> IF command.type = "CREATENYM" THEN id ELSE <<>>] :
       st \in W.status, id \in W.identifier, t \in TaskNumbers }

\* the engine after it returned response to command
EngineAfter(command, response) ==
  [engine EXCEPT
     !.tasks = IF response.task # <<>>
                  /\ response.task[1] = TaskIdTable[Len(@) + 1]
               THEN Append(@, [cookie |-> command.cookie, pushed |-> 0,
                               received |-> 0])
               ELSE @,
     !.clients = IF response.type = "ADDCLIENTSESSION"
                    /\ 0 < Len(response.status)
                    /\ response.status[1] = "SUCCESS"
                 THEN @ + 1 ELSE @,
     !.servers = IF response.type = "ADDSERVERSESSION"
                    /\ 0 < Len(response.status)
                    /\ response.status[1] = "SUCCESS"
                 THEN @ + 1 ELSE @]

\* session_to_client_index, line 522: the precondition of the classifier
SessionIsClient(session) == 0 = session % 2

session_to_client_indexM(session) == session

\* session_to_client_index, line 524
session_to_client_index(session) == session \div 2

\* lines 242-243, 254-255: the payment cases look the owner up only for a
\* response whose first status is QUEUED
LooksUpOwner(response) ==
  /\ response.type \in {"SENDPAYMENT", "ACCEPTPENDINGPAYMENTS"}
  /\ 0 < Len(response.status)
  /\ "QUEUED" = response.status[1]

TaskNymM(command, response) ==
  IF response.type \in RegisterKinds THEN command.owner
  ELSE IF LooksUpOwner(response)
  THEN AccountOwner(session_to_client_index(command.session),
                    command.sendpayment.sourceaccount)
  ELSE ""

\* lines 235-264: taskNymID by the switch on response.type()
TaskNym(command, response) ==
  IF response.type \in RegisterKinds THEN command.owner
  ELSE IF LooksUpOwner(response) /\ response.type = "SENDPAYMENT"
  THEN AccountOwner(session_to_client_index(command.session),
                    command.sendpayment.sourceaccount)
  ELSE IF LooksUpOwner(response)
  THEN AccountOwner(session_to_client_index(command.session),
                    command.acceptpendingpayment[1].destinationaccount)
  ELSE ""

\* lines 214-304: the engine call and the switch on response.type()
RPC(w) ==
  /\ ~aborted
  /\ worker[w].pc = "RPC"
  /\ \E response \in EngineResponses(Command(w)) :
       LET command == Command(w) IN
       /\ engine' = EngineAfter(command, response)
       /\ IF LooksUpOwner(response) /\ ~SessionIsClient(command.session)
          THEN /\ aborted' = TRUE
               /\ worker' = [worker EXCEPT ![w].pc = "OT_ASSERT",
                                           ![w].response = response]
               /\ UNCHANGED client_lookups
          ELSE /\ UNCHANGED aborted
               /\ client_lookups' =
                    IF LooksUpOwner(response)
                    THEN client_lookups \cup
                           {<<command.session,
                              session_to_client_index(command.session)>>}
                    ELSE client_lookups
               /\ worker' = [worker EXCEPT
                    ![w].response = response,
                    ![w].taskNymID = TaskNym(command, response),
                    ![w].nyms = IF response.type = "CREATENYM"
                                THEN response.identifier ELSE <<>>,
                    ![w].pc =
                      IF response.type \in {"ADDCLIENTSESSION",
                                            "ADDSERVERSESSION"}
                         /\ Succeeded(response)
                      THEN "increment_config_value"
                      ELSE IF response.type = "CREATENYM"
                      THEN AfterNym(response.identifier, response)
                      ELSE AfterSwitch(response)]
  /\ UNCHANGED << workload, ctorVars, clientVars, queueVars, frontend_sent,
                  mapVars, configVars, pushed, scheduled >>

\* the settings entry update_clients / update_servers increments
Entry(response) ==
  IF response.type = "ADDCLIENTSESSION" THEN "clients" ELSE "servers"

ConfigLockFreeM == TRUE

\* Lock lock(config_lock_) can be taken
ConfigLockFree == config_lock_ = NoLock

\* increment_config_value, lines 374-377: lock and read the entry
increment_config_value(w) ==
  /\ ~aborted
  /\ worker[w].pc = "increment_config_value"
  /\ ConfigLockFree
  /\ config_lock_' = w
  /\ worker' = [worker EXCEPT
       ![w].value = config_[Entry(worker[w].response)],
       ![w].pc = "put_value"]
  /\ UNCHANGED << workload, ctorVars, clientVars, queueVars, frontend_sent,
                  mapVars, config_, settings_file, clients_, servers_,
                  engine, pushed, scheduled, client_lookups, aborted >>

\* increment_config_value, lines 378-379: write, save, unlock; then the
\* rest of update_clients (lines 530-532) or update_servers (line 538)
put_value(w) ==
  /\ ~aborted
  /\ worker[w].pc = "put_value"
  /\ LET entry == Entry(worker[w].response) IN
     /\ config_' = [config_ EXCEPT ![entry] = worker[w].value + 1]
     /\ settings_file' = config_'
     /\ config_lock_' = NoLock
     /\ IF entry = "clients"
        THEN LET newCount == clients_ + 1
                 newIndex == newCount - 1
             IN /\ clients_' = newCount
                /\ schedule_refresh(newIndex)
                /\ UNCHANGED servers_
        ELSE /\ servers_' = servers_ + 1
             /\ UNCHANGED << clients_, scheduled >>
  /\ worker' = [worker EXCEPT
       ![w].value = 0,
       ![w].pc = AfterSwitch(worker[w].response)]
  /\ UNCHANGED << workload, ctorVars, clientVars, queueVars, frontend_sent,
                  mapVars, engine, pushed, client_lookups, aborted >>

\* associate_task, lines 173-181
associate_task(w) ==
  /\ ~aborted
  /\ worker[w].pc = "associate_task"
  /\ LET connection == ConnectionID(w)
         nymID == worker[w].taskNymID
         task == worker[w].response.task[1]
     IN IF connection = "" \/ nymID = "" \/ task = ""
        THEN /\ Abort(w)
             /\ UNCHANGED << task_lock_, task_connection_map_ >>
        ELSE /\ task_lock_ = NoLock
             /\ task_connection_map_' =
                  Emplace(task_connection_map_, task, <<connection, nymID>>)
             /\ worker' = [worker EXCEPT ![w].pc = "reply"]
             /\ UNCHANGED << task_lock_, aborted >>
  /\ UNCHANGED << workload, ctorVars, clientVars, queueVars, frontend_sent,
                  nym_connection_map_, configVars, engine, pushed,
                  scheduled, client_lookups >>

\* zmq::Message::ReplyFactory(message) plus the response frame
ReplyMessage(message, response) ==
  [header |-> message.header, body |-> <<ResponseAsData(response)>>]

\* lines 315-320: the reply goes back through the internal dealer
reply(w) ==
  /\ ~aborted
  /\ worker[w].pc = "reply"
  /\ internal_in' =
       Append(internal_in,
              ReplyMessage(worker[w].message, worker[w].response))
  /\ worker' = [worker EXCEPT ![w] = IdleWorker]
  /\ UNCHANGED << workload, ctorVars, clientVars, rr, inbox, frontend_sent,
                  mapVars, configVars, engine, pushed, scheduled,
                  client_lookups, aborted >>

\* -------------------------------------------------------- internal handler
\* line 400: frontend_->Send(message)
internal_handler ==
  /\ ~aborted
  /\ internal_in # <<>>
  /\ frontend_sent' =
       Append(frontend_sent,
              [by |-> "internal_handler", message |-> Head(internal_in)])
  /\ internal_in' = Tail(internal_in)
  /\ UNCHANGED << workload, ctorVars, clientVars, rr, inbox, worker,
                  mapVars, configVars, engine, pushed, scheduled,
                  client_lookups, aborted >>

\* ------------------------------------------------------------ push bridge
\* instantiate_push, lines 384-394: header [connectionID], body ["PUSH"]
instantiate_push(connectionID) ==
  [header |-> <<connectionID>>, body |-> <<"PUSH">>]

\* send_task_push, lines 504-516: the message it sends
TaskPushMessage(connectionID, taskID, nymID, result) ==
  LET push == instantiate_push(connectionID)
      message ==
        [version |-> RPCPUSH_VERSION, type |-> "TASK", id |-> nymID,
         taskcomplete |-> [version |-> TASKCOMPLETE_VERSION,
                           id |-> taskID, result |-> result]]
  IN [push EXCEPT !.body = Append(@, PushAsData(message))]

\* push_handler, lines 461-463: the message for a nym-addressed event
NymPushMessage(connection, payload, instance) ==
  LET notification == instantiate_push(connection)
  IN [notification EXCEPT !.body = Append(Append(@, payload), instance)]

\* process_task_push, lines 405-429
process_task_push(body) ==
  LET push == DataToPush(body[1])
      taskID == push.taskcomplete.id
      success == push.taskcomplete.result
  IN /\ task_lock_ = NoLock
     /\ IF taskID \notin DOMAIN task_connection_map_
        THEN UNCHANGED << task_connection_map_, frontend_sent, aborted >>
        ELSE LET connectionID == task_connection_map_[taskID][1]
                 nymID == task_connection_map_[taskID][2]
             IN /\ task_connection_map_' =
                     Erase(task_connection_map_, taskID)
                /\ IF nymID = "" \/ connectionID = "" \/ taskID = ""
                   THEN /\ aborted' = TRUE
                        /\ UNCHANGED frontend_sent
                   ELSE /\ frontend_sent' =
                             Append(frontend_sent,
                               [by |-> "send_task_push",
                                message |-> TaskPushMessage(
                                  connectionID, taskID, nymID, success)])
                        /\ UNCHANGED aborted

NymAtM(nymID) ==
  {IF nymID \in DOMAIN nym_connection_map_
   THEN nym_connection_map_[nymID] ELSE "c1"}

\* the outcomes of nym_connection_map_.at(nymID) under nym_lock_, which no
\* writer holds: "" stands for the out_of_range exception.  Racing with an
\* emplace of the same key the entry is seen or not.
NymAt(nymID) ==
  (IF nymID \in DOMAIN nym_connection_map_
   THEN {nym_connection_map_[nymID]} ELSE {""})
  \cup (IF \E w \in Workers : Emplacing(w) THEN {""} ELSE {})
  \cup {ConnectionID(w) :
          w \in {o \in Workers : Emplacing(o) /\ Head(worker[o].nyms) = nymID}}

\* push_handler, lines 434-475
push_handler(body) ==
  IF 1 = Len(body)
  THEN process_task_push(body)
  ELSE IF 3 # Len(body)
  THEN UNCHANGED << task_connection_map_, frontend_sent, aborted >>
  ELSE LET nymID == body[1]
           payload == body[2]
           instance == body[3]
       IN \E connection \in NymAt(nymID) :
            /\ frontend_sent' =
                 IF connection = "" THEN frontend_sent
                 ELSE Append(frontend_sent,
                        [by |-> "push_handler",
                         message |->
                           NymPushMessage(connection, payload, instance)])
            /\ UNCHANGED << task_connection_map_, aborted >>

\* the outcome of the engine's i-th task
TaskResult(i) == i % 2 = 1

\* the messages the engine can publish on rpc/push now: the completion of
\* a task it minted, or one of the workload's nym-addressed events
Publications ==
  { [task |-> i, body |-> TaskComplete(TaskIdTable[i], TaskResult(i))] :
      i \in 1..Len(engine.tasks) }
  \cup
  { [task |-> 0, body |-> body] : body \in W.events }

\* the engine's record of an event it publishes: whether the subscriber
\* gets it, the connection the nym table holds for its nym (if it has three
\* frames and the table holds one), and whether a worker is inserting that
\* nym; events counts the events received for a nym the table holds,
\* racing those received while a worker is inserting their nym, dropped
\* the others received
EventLogged(body) ==
  LET nymID == IF Len(body) = 3 THEN body[1] ELSE ""
      to == IF nymID \in DOMAIN nym_connection_map_
            THEN nym_connection_map_[nymID] ELSE ""
      racing == \E w \in Workers :
                  Emplacing(w) /\ Head(worker[w].nyms) = nymID
  IN [engine EXCEPT
        !.last = [body |-> body, received |-> push_started, to |-> to,
                  racing |-> racing],
        !.events = IF push_started /\ to # "" THEN @ + 1 ELSE @,
        !.racing = IF push_started /\ racing THEN @ + 1 ELSE @,
        !.dropped = IF push_started /\ to = "" /\ ~racing
                    THEN @ + 1 ELSE @]

\* The engine publishes p.  The subscriber gets it once push_subscriber_
\* is started (a message published earlier is lost) and push_handler runs.
Publish(p) ==
  /\ ~aborted
  /\ pushed < MaxPushes
  /\ pushed' = pushed + 1
  /\ engine' = IF p.task = 0 THEN EventLogged(p.body)
               ELSE [engine EXCEPT
                       !.tasks[p.task].pushed = @ + 1,
                       !.tasks[p.task].received =
                          IF push_started THEN @ + 1 ELSE @]
  /\ IF push_started
     THEN push_handler(p.body)
     ELSE UNCHANGED << task_connection_map_, frontend_sent, aborted >>
  /\ UNCHANGED << workload, ctorVars, clientVars, queueVars, worker,
                  task_lock_, nym_connection_map_, configVars, scheduled,
                  client_lookups >>

\* ---------------------------------------------------------- specification
Next ==
  \/ Agent
  \/ \E c \in Conns : \E a \in W.auth : Connect(c, a)
  \/ \E c \in Conns : \E body \in ClientBodies : frontend_handler(c, body)
  \/ \E w \in Workers : Receive(w)
  \/ \E w \in Workers : associate_nym(w)
  \/ \E w \in Workers : associate_nym_lock(w)
  \/ \E w \in Workers : associate_nym_emplace(w)
  \/ \E w \in Workers : RPC(w)
  \/ \E w \in Workers : increment_config_value(w)
  \/ \E w \in Workers : put_value(w)
  \/ \E w \in Workers : associate_task(w)
  \/ \E w \in Workers : reply(w)
  \/ internal_handler
  \/ \E p \in Publications : Publish(p)

\* the agent under every workload
Spec == Init /\ [][Next]_vars

\* The agent under the workloads of one part.  The actions left out of a
\* part's next-state relation are never enabled under its workloads.
NextAuth ==
  \/ Agent
  \/ \E c \in Conns : \E a \in W.auth : Connect(c, a)
  \/ \E c \in Conns : \E body \in ClientBodies : frontend_handler(c, body)
  \/ \E w \in Workers : Receive(w)
  \/ \E w \in Workers : RPC(w)
  \/ \E w \in Workers : reply(w)
  \/ internal_handler

InitAuth == Init /\ workload = 1

SpecAuth == InitAuth /\ [][NextAuth]_vars

NextSessions ==
  \/ NextAuth
  \/ \E w \in Workers : increment_config_value(w)
  \/ \E w \in Workers : put_value(w)

InitSessions == Init /\ workload = 2

SpecSessions == InitSessions /\ [][NextSessions]_vars

NextNyms ==
  \/ NextAuth
  \/ \E w \in Workers : associate_nym(w)
  \/ \E w \in Workers : associate_nym_lock(w)
  \/ \E w \in Workers : associate_nym_emplace(w)

InitNyms == Init /\ workload = 3

SpecNyms == InitNyms /\ [][NextNyms]_vars

NextTasks ==
  \/ NextAuth
  \/ \E w \in Workers : associate_task(w)
  \/ \E p \in Publications : Publish(p)

InitTasks == Init /\ workload \in {4, 5, 11}

SpecTasks == InitTasks /\ [][NextTasks]_vars

InitPayments == Init /\ workload \in {6, 10}

SpecPayments == InitPayments /\ [][NextTasks]_vars

InitOther == Init /\ workload = 7

SpecOther == InitOther /\ [][NextTasks]_vars

NextEvents ==
  \/ NextNyms
  \/ \E p \in Publications : Publish(p)

InitEvents == Init /\ workload = 12

SpecEvents == InitEvents /\ [][NextEvents]_vars

InitDrops == Init /\ workload = 13

SpecDrops == InitDrops /\ [][NextEvents]_vars

InitDup == Init /\ workload = 14

SpecDup == InitDup /\ [][NextTasks]_vars

InitStatus == Init /\ workload = 15

SpecStatus == InitStatus /\ [][NextTasks]_vars

\* ------------------------------------------------------------------------
\* Properties
\* ------------------------------------------------------------------------
\* the requests that are queued at a worker or being handled by one
AtWorkers ==
  UNION {{inbox[w][i] : i \in 1..Len(inbox[w])} : w \in Workers}
  \cup {worker[w].message : w \in {o \in Workers : worker[o].pc # "idle"}}

\* the request (as the client sent it) that made the engine mint task i
TaskRequest(i) == client_sent[engine.tasks[i].cookie]
\* the index of a minted task id
TaskIndex(taskID) ==
  CHOOSE i \in 1..Len(engine.tasks) : TaskIdTable[i] = taskID
Minted(taskID) ==
  \E i \in 1..Len(engine.tasks) : TaskIdTable[i] = taskID

\* C1: every request at a worker carries, in body frame 1, the identity the
\* transport gave its sender (the last header frame), and so every task
\* association is recorded under the connection that sent the command.
C1_RoutingIdentity ==
  /\ \A m \in AtWorkers : m.body[2] = m.header[Len(m.header)]
  /\ \A t \in DOMAIN task_connection_map_ :
       task_connection_map_[t][1] = TaskRequest(TaskIndex(t)).header[1]

\* the positions in frontend_sent of the task pushes for taskID
TaskPushes(taskID) ==
  { j \in 1..Len(frontend_sent) :
      /\ frontend_sent[j].by = "send_task_push"
      /\ DataToPush(frontend_sent[j].message.body[2]).taskcomplete.id = taskID }

\* C2: once the push bridge has received a taskComplete for a task the engine
\* minted in a QUEUED response to connection C, exactly one task push for
\* that task has been sent on the frontend, to C, and the task table holds
\* no entry for it.
C2_TaskPushOnce ==
  \A i \in 1..Len(engine.tasks) :
    engine.tasks[i].received >= 1 =>
      /\ Cardinality(TaskPushes(TaskIdTable[i])) = 1
      /\ \A j \in TaskPushes(TaskIdTable[i]) :
           frontend_sent[j].message.header = TaskRequest(i).header
      /\ TaskIdTable[i] \notin DOMAIN task_connection_map_

\* request k is queued at a worker or being handled by one
InFlight(k) ==
  \E m \in AtWorkers : DataToCommand(m.body[1]).cookie = k

\* the replies to request k: waiting on the internal dealer, or sent
RepliesQueued(k) ==
  { j \in 1..Len(internal_in) :
      DataToResponse(internal_in[j].body[1]).cookie = k }
RepliesSent(k) ==
  { j \in 1..Len(frontend_sent) :
      /\ frontend_sent[j].by = "internal_handler"
      /\ DataToResponse(frontend_sent[j].message.body[1]).cookie = k }

\* C3: every request with a non-empty body is on its way through a running
\* agent or has exactly one reply, routed to the connection that sent it.
C3_ReplySymmetry ==
  \A k \in 1..Len(client_sent) :
    client_sent[k].body # <<>> =>
      \/ ~aborted /\ InFlight(k)
      \/ /\ Cardinality(RepliesQueued(k)) + Cardinality(RepliesSent(k)) = 1
         /\ \A j \in RepliesQueued(k) :
              internal_in[j].header = client_sent[k].header
         /\ \A j \in RepliesSent(k) :
              frontend_sent[j].message.header = client_sent[k].header

\* C4: an entry of the nym table never changes and is never removed: once
\* the table maps nym N to a connection, it maps N to that connection in
\* every later state.
C4_FirstWriterWins ==
  [][\A n \in DOMAIN nym_connection_map_ :
       /\ n \in DOMAIN nym_connection_map_'
       /\ nym_connection_map_'[n] = nym_connection_map_[n]]_vars

\* a worker has finished associate_nym for a nym that the table maps to
\* another connection
C4_Witness ==
  \E w \in Workers :
    /\ worker[w].pc = "RPC"
    /\ \E i \in 1..Len(Command(w).associatenym) :
         LET n == Command(w).associatenym[i] IN
         /\ n \in DOMAIN nym_connection_map_
         /\ nym_connection_map_[n] # ConnectionID(w)

\* C5: every request forwarded to a worker comes from a connection for
\* which the ZAP handler returned Success, on the configured client key;
\* and the frontend is bound only with the handler and the domain in place,
\* so no connection is admitted unchecked.
C5_AuthGating ==
  /\ \A k \in 1..Len(client_sent) :
       LET c == client_sent[k].header[1] IN
       /\ conn[c].reply = ZapReply("Success", "OK")
       /\ conn[c].mechanism = "CURVE"
       /\ conn[c].credentials = <<TrustedKey>>
  /\ frontend_bound => zap_registered /\ frontend_domain
  /\ \A c \in Conns : conn[c].reply.code # "unchecked"

\* a request of an authenticated connection is at a worker
C5_Witness ==
  \E w \in Workers :
    /\ worker[w].pc = "RPC"
    /\ conn[worker[w].message.header[1]].reply.code = "Success"

\* the key an authentication request presents (none: the empty key)
Presented(c) ==
  IF conn[c].credentials = <<>> THEN <<>> ELSE conn[c].credentials[1]

\* C6: every authentication request got exactly the reply of the table:
\* Unsupported mechanism, else Incorrect pubkey, else OK.
C6_ZapReply ==
  \A c \in Conns :
    conn[c].mechanism # "" =>
      conn[c].reply =
        IF conn[c].mechanism # "CURVE"
        THEN ZapReply("AuthFailure", "Unsupported mechanism")
        ELSE IF Presented(c) # TrustedKey
        THEN ZapReply("AuthFailure", "Incorrect pubkey")
        ELSE ZapReply("Success", "OK")

\* the workers between the engine's successful Add*Session response and
\* the end of the increment it causes
Incrementing(type) ==
  { w \in Workers :
      /\ worker[w].pc \in {"increment_config_value", "put_value"}
      /\ worker[w].response.type = type }

\* C7: once the sessions are started, the clients (servers) counter, in
\* memory and on disk, is the number of client (server) sessions the engine
\* has, less the successful AddClientSession (AddServerSession) responses
\* whose increment has not finished: the starting value plus the successful
\* responses processed so far.
C7_SessionCounters ==
  ctor_pc > 1 =>
    /\ config_.clients =
         engine.clients - Cardinality(Incrementing("ADDCLIENTSESSION"))
    /\ config_.servers =
         engine.servers - Cardinality(Incrementing("ADDSERVERSESSION"))
    /\ settings_file = config_
    /\ config_.clients >= InitClients
    /\ config_.servers >= InitServers

\* two successful AddClientSession responses have been processed
C7_Witness ==
  /\ config_.clients = InitClients + 2
  /\ settings_file.clients = InitClients + 2
  /\ \A w \in Workers : worker[w].pc = "idle"

\* the nym the classification table names for a command
ExpectedNym(command) ==
  IF command.type \in RegisterKinds THEN command.owner
  ELSE IF command.type = "SENDPAYMENT"
  THEN AccountOwner(command.session \div 2, command.sendpayment.sourceaccount)
  ELSE IF command.type = "ACCEPTPENDINGPAYMENTS"
  THEN AccountOwner(command.session \div 2,
                    command.acceptpendingpayment[1].destinationaccount)
  ELSE ""

TaskCommand(taskID) ==
  DataToCommand(TaskRequest(TaskIndex(taskID)).body[1])

\* C8: every task association holds the nym the classification table names
\* for the command that queued the task, and every task push carries that
\* nym as its id, a task id the engine minted, and that task's result.
C8_Classification ==
  /\ \A t \in DOMAIN task_connection_map_ :
       /\ Minted(t)
       /\ task_connection_map_[t][2] = ExpectedNym(TaskCommand(t))
  /\ \A j \in 1..Len(frontend_sent) :
       frontend_sent[j].by = "send_task_push" =>
         LET push == DataToPush(frontend_sent[j].message.body[2]) IN
         /\ Minted(push.taskcomplete.id)
         /\ push.id = ExpectedNym(TaskCommand(push.taskcomplete.id))
         /\ push.taskcomplete.result =
              TaskResult(TaskIndex(push.taskcomplete.id))
         /\ push.type = "TASK"
         /\ push.version = RPCPUSH_VERSION
         /\ push.taskcomplete.version = TASKCOMPLETE_VERSION

\* the task push of a queued AcceptPendingPayments has been sent
C8_Witness ==
  \E j \in 1..Len(frontend_sent) :
    /\ frontend_sent[j].by = "send_task_push"
    /\ LET push == DataToPush(frontend_sent[j].message.body[2]) IN
       /\ TaskCommand(push.taskcomplete.id).type = "ACCEPTPENDINGPAYMENTS"
       /\ push.id = "n2"

PaymentKinds == {"SENDPAYMENT", "ACCEPTPENDINGPAYMENTS"}

\* the workers that hold the engine's response to a payment command on an
\* odd session
OddPayment ==
  { w \in Workers :
      /\ worker[w].response # NoResponse
      /\ Command(w).type \in PaymentKinds
      /\ Command(w).session % 2 = 1 }

\* every client lookup is for an even session s, under index s / 2
LookupsHalved ==
  \A l \in client_lookups : l[1] % 2 = 0 /\ 2 * l[2] = l[1]

\* no task association comes from a payment on an odd session
NoOddAssociation ==
  \A t \in DOMAIN task_connection_map_ :
    TaskCommand(t).type \in PaymentKinds => TaskCommand(t).session % 2 = 0

\* C9: whenever the classifier derives the client index for a payment
\* command, which it does when the first status of the response is QUEUED:
\* the index of an even session s is s / 2, and on an odd session the
\* handling ends in an assertion failure, no task association is recorded
\* for the command, and no client is looked up under another index.
C9_Classifier ==
  /\ LookupsHalved
  /\ NoOddAssociation
  /\ \A w \in OddPayment :
       LooksUpOwner(worker[w].response) => worker[w].pc = "OT_ASSERT"
  /\ \A w \in Workers :
       /\ worker[w].response # NoResponse
       /\ Command(w).type \in PaymentKinds
       /\ Command(w).session % 2 = 0
       /\ LooksUpOwner(worker[w].response)
       => <<Command(w).session, Command(w).session \div 2>> \in client_lookups

\* a queued payment on session 4 looked client 2 up, and a queued payment
\* on session 3 failed the assertion
C9_Witness ==
  /\ <<4, 2>> \in client_lookups
  /\ \E w \in OddPayment : worker[w].pc = "OT_ASSERT"

\* C10: every push sent on the frontend has a header of one frame and a
\* body of three frames, the first of them "PUSH".
C10_PushFormat ==
  \A j \in 1..Len(frontend_sent) :
    frontend_sent[j].by \in {"send_task_push", "push_handler"} =>
      /\ Len(frontend_sent[j].message.header) = 1
      /\ Len(frontend_sent[j].message.body) = 3
      /\ frontend_sent[j].message.body[1] = "PUSH"

\* the positions in frontend_sent of the pushes for nym-addressed events
NymPushes ==
  { j \in 1..Len(frontend_sent) : frontend_sent[j].by = "push_handler" }

\* C11: every event the push bridge received for a nym the nym table held
\* has exactly one message on the frontend (an event received while a
\* worker was inserting its nym has at most one), each message has the
\* header [C] of the nym's connection and the body ["PUSH", payload,
\* instance] of the event, and the delivery leaves the association in
\* place.
C11_NymPush ==
  /\ engine.events <= Cardinality(NymPushes)
  /\ Cardinality(NymPushes) <= engine.events + engine.racing
  /\ \A j \in NymPushes :
       LET m == frontend_sent[j].message IN
       /\ Len(m.body) = 3
       /\ m.body[1] = "PUSH"
       /\ m.body[3] = "inst-0"
       /\ \E n \in NymIds :
            /\ m.body[2] = EventPayload(n)
            /\ \/ /\ n \in DOMAIN nym_connection_map_
                  /\ m.header = <<nym_connection_map_[n]>>
               \/ \E w \in Workers :
                    /\ Emplacing(w)
                    /\ Head(worker[w].nyms) = n
                    /\ m.header = <<ConnectionID(w)>>
  /\ engine.last.to # "" =>
       /\ engine.last.body[1] \in DOMAIN nym_connection_map_
       /\ nym_connection_map_[engine.last.body[1]] = engine.last.to

\* the step is the push bridge receiving an event that is no task
\* completion, for which the nym table holds no connection and no worker
\* is inserting one: an unknown nym, a body of another size than 1 or 3, or
\* a task completion the engine never named
DropsEvent ==
  /\ pushed' = pushed + 1
  /\ engine'.tasks = engine.tasks
  /\ engine'.last.received
  /\ engine'.last.to = ""
  /\ ~engine'.last.racing

\* C12: a push for a task the task table does not hold, an event for a nym
\* the nym table does not hold, and a message of another size than 1 or 3
\* send nothing on the frontend and change neither table, and the push
\* bridge goes on: no assertion fails.
C12_DropUnknown ==
  [][DropsEvent =>
       /\ frontend_sent' = frontend_sent
       /\ task_connection_map_' = task_connection_map_
       /\ nym_connection_map_' = nym_connection_map_
       /\ aborted' = aborted
       /\ push_started']_vars

\* the push bridge has dropped a message of two frames, or for an unknown
\* nym or task, and has delivered the event it received after it
C12_Witness ==
  /\ engine.dropped = 1
  /\ pushed = 2
  /\ engine.last.received
  /\ engine.last.to = "c1"
  /\ Cardinality(NymPushes) = 1
  /\ nym_connection_map_ = [n \in {"n1"} |-> "c1"]

\* the cookies of the replies the frontend has sent to connection c, in
\* the order it sent them
RECURSIVE ReplyCookies(_, _)
ReplyCookies(c, j) ==
  IF j = 0 THEN <<>>
  ELSE LET sent == frontend_sent[j]
           rest == ReplyCookies(c, j - 1)
       IN IF sent.by = "internal_handler" /\ sent.message.header = <<c>>
          THEN Append(rest, DataToResponse(sent.message.body[1]).cookie)
          ELSE rest

\* C13: the replies sent to one connection are in the order in which its
\* requests were forwarded (a request's cookie is its position in that
\* order).
C13_ReplyOrder ==
  \A c \in Conns :
    LET cookies == ReplyCookies(c, Len(frontend_sent)) IN
    \A i, j \in 1..Len(cookies) : i < j => cookies[i] < cookies[j]

\* the positions in frontend_sent of the replies that name taskID
TaskReplies(taskID) ==
  { j \in 1..Len(frontend_sent) :
      /\ frontend_sent[j].by = "internal_handler"
      /\ DataToResponse(frontend_sent[j].message.body[1]).task = <<taskID>> }

\* the replies the workers have returned: queued on the internal dealer or
\* sent on the frontend
Returned ==
  {internal_in[j] : j \in 1..Len(internal_in)}
  \cup {frontend_sent[j].message :
          j \in {k \in 1..Len(frontend_sent) :
                   frontend_sent[k].by = "internal_handler"}}

\* C14: when a worker has returned the reply that names task T, the task
\* association for T has been installed (it is in the task table, or its
\* push has consumed it); and the frontend sends the task push for T only
\* after it has sent the reply that names T.
C14_ReplyBeforePush ==
  /\ \A m \in Returned :
       LET response == DataToResponse(m.body[1]) IN
       QueuedWithTask(response) =>
         \/ response.task[1] \in DOMAIN task_connection_map_
         \/ TaskPushes(response.task[1]) # {}
  /\ \A i \in 1..Len(engine.tasks) :
       \A j \in TaskPushes(TaskIdTable[i]) :
         \E k \in TaskReplies(TaskIdTable[i]) : k < j

\* the command kinds the switch of backend_handler derives a task nym for
ClassifiedKinds == RegisterKinds \cup PaymentKinds

\* the workers handling a command of another kind, past the engine call
Unclassified ==
  { w \in Workers :
      /\ worker[w].response # NoResponse
      /\ Command(w).type \notin ClassifiedKinds }

\* C15: for a command of a kind the classifier has no case for, the task
\* nym is empty, no task association is recorded, and the worker goes on
\* to return the reply, also when the response is QUEUED and names a task.
C15_NoTaskNym ==
  /\ \A w \in Unclassified :
       /\ worker[w].taskNymID = ""
       /\ worker[w].pc \in {"associate_task", "reply"}
  /\ \A t \in DOMAIN task_connection_map_ :
       TaskCommand(t).type \in ClassifiedKinds
  /\ ~aborted

\* worker w returns from associate_task in the step
Associates(w) ==
  /\ worker[w].pc = "associate_task"
  /\ worker'[w].pc = "reply"

\* C16: after associate_task(connection, nym, task) the task table holds
\* the pair (connection, nym) of the call for task, whether or not it held
\* an entry for task before.
C16_TaskOverwrite ==
  [][\A w \in Workers :
       Associates(w) =>
         LET task == worker[w].response.task[1] IN
         /\ task \in DOMAIN task_connection_map_'
         /\ task_connection_map_'[task] =
              <<ConnectionID(w), worker[w].taskNymID>>]_vars

\* the response carries a status of kind QUEUED, at any position, and a
\* task entry
AnyQueuedWithTask(response) ==
  /\ \E i \in 1..Len(response.status) : response.status[i] = "QUEUED"
  /\ 0 < Len(response.task)

\* C17: when a worker has returned its reply, it has recorded a task
\* association for response.task[0].id (the task table holds it, or its
\* push has consumed it) exactly when the response carries a QUEUED status
\* at any position and a task entry.
C17_AnyQueued ==
  /\ \A m \in Returned :
       LET response == DataToResponse(m.body[1]) IN
       AnyQueuedWithTask(response) =>
         \/ response.task[1] \in DOMAIN task_connection_map_
         \/ TaskPushes(response.task[1]) # {}
  /\ \A t \in DOMAIN task_connection_map_ :
       \E response \in {worker[w].response : w \in Workers}
                        \cup {DataToResponse(m.body[1]) : m \in Returned} :
         /\ response.task = <<t>>
         /\ AnyQueuedWithTask(response)

\* worker w is at the insert of associate_nym (line 160), holding
\* task_lock_
Inserting(w) == worker[w].pc = "emplace"

\* worker w is at the find of associate_nym (line 156), which takes no lock
Finding(w) ==
  /\ worker[w].pc = "associate_nym"
  /\ Head(worker[w].nyms) # ""

\* the push subscriber's thread can run the nym lookup of push_handler
\* (lines 450-452, under nym_lock_) for an event the engine publishes now
BridgeLooksUp ==
  /\ ~aborted
  /\ push_started
  /\ pushed < MaxPushes
  /\ \E p \in Publications : Len(p.body) = 3

\* C18: the accesses to the nym table exclude each other: while a worker
\* is at the insert of associate_nym, no other worker is at its lookup and
\* the push bridge cannot be in its nym lookup.
C18_NymMutex ==
  \A w \in Workers :
    Inserting(w) =>
      /\ \A o \in Workers \ {w} : ~Finding(o)
      /\ ~BridgeLooksUp

\* the thread a handler runs on: internal_handler on the thread of the
\* internal dealer, push_handler and send_task_push on the thread of the
\* push subscriber
HandlerThread(by) ==
  IF by = "internal_handler" THEN "internal_" ELSE "push_subscriber_"

\* the push subscriber's thread can send a task push on the frontend now
BridgeSends ==
  /\ ~aborted
  /\ push_started
  /\ pushed < MaxPushes
  /\ task_lock_ = NoLock
  /\ \E i \in 1..Len(engine.tasks) :
       TaskIdTable[i] \in DOMAIN task_connection_map_

\* C19: the frontend socket is written by one thread only: all messages
\* sent on it were sent by handlers of one thread, and the internal
\* handler and the push bridge are never both able to send on it.
C19_FrontendOneThread ==
  /\ Cardinality({HandlerThread(frontend_sent[j].by) :
                    j \in 1..Len(frontend_sent)}) <= 1
  /\ ~(internal_in # <<>> /\ BridgeSends)

\* the client indices schedule_refresh has been invoked for
Refreshed == {scheduled[k] : k \in 1..Len(scheduled)}

\* the constructor has returned and no worker is inside update_clients
RefreshSettled ==
  /\ CtorDone
  /\ \A w \in Workers :
       worker[w].pc \notin {"increment_config_value", "put_value"}

\* C20: schedule_refresh is never invoked twice for a client index, never
\* for an index whose client session the engine has not started, and, once
\* the constructor and the workers are through, it has been invoked for
\* every index from 0 to the client count minus one.
C20_RefreshOnce ==
  /\ \A j, k \in 1..Len(scheduled) : j # k => scheduled[j] # scheduled[k]
  /\ \A i \in Refreshed : 0 <= i /\ i < engine.clients
  /\ RefreshSettled => Refreshed = 0..(clients_ - 1)

====
